---- MODULE Spec2Model ----
(***************************************************************************)
(* FIFO-based client/server arithmetic service (server.c, client.c).       *)
(*                                                                         *)
(* One server process, its forked workers, NClients interactive clients    *)
(* and one external writer of partial records share the inbound FIFO       *)
(* /tmp/arith_req_fifo; every client owns one reply FIFO.                  *)
(*                                                                         *)
(* A FIFO is a byte stream.  The request record is modelled as ReqLen      *)
(* cells (four operation characters, operand1, operand2, client_pid,       *)
(* resp_fifo), the response record as one cell: a write of a whole record  *)
(* is atomic (both records are smaller than PIPE_BUF), a read returns      *)
(* what is there up to the count asked for.  open() of a FIFO blocks       *)
(* until the other end is open; a process blocked in open() already        *)
(* counts as holding its end (Linux fifo_open).                            *)
(***************************************************************************)
EXTENDS Integers, Sequences, FiniteSets, TLC

\* ------------------------------------------------------------- bounds
\* Number of client processes.
NClients == 2
\* Requests the session of the first client may issue; the sessions of the
\* other clients issue at most one.
MaxReqs == 2
\* Partial records the external writer may inject.
MaxInject == 1
\* Times fork() may fail.
MaxForkFail == 1
\* Width in bits of the signed operands and results (int64_t in the source,
\* scaled down; all arithmetic below is modulo 2^IntBits).
IntBits == 3

Clients == 1..NClients
SessionLimit(c) == IF c = 1 THEN MaxReqs ELSE 1

Pow2(n) == 2 ^ n
MinInt == -(Pow2(IntBits - 1))
MaxInt == Pow2(IntBits - 1) - 1
IntRange == MinInt..MaxInt

\* Two's-complement reduction of a mathematical integer to IntBits bits.
Wrap(x) == ((x - MinInt) % Pow2(IntBits)) + MinInt

\* ------------------------------------------------------------- wire codec
\* Characters of the operation tags, as byte values.
ChNul == 0
ChA == 1
ChB == 2
ChD == 3
ChI == 4
ChL == 5
ChM == 6
ChS == 7
ChU == 8
ChV == 9
ChX == 10
\* Number of values of one byte of the operation field.
ByteVals == 16

\* The four bytes of the operation field as one word, first byte lowest.
OpWord(c1, c2, c3, c4) ==
    c1 + ByteVals * c2 + ByteVals * ByteVals * c3 + ByteVals * ByteVals * ByteVals * c4

OpAdd == OpWord(ChA, ChD, ChD, ChNul)
OpSub == OpWord(ChS, ChU, ChB, ChNul)
OpMul == OpWord(ChM, ChU, ChL, ChNul)
OpDiv == OpWord(ChD, ChI, ChV, ChNul)

\* is_valid_op: the operation names the client accepts from the user.
ValidOps == {OpAdd, OpSub, OpMul, OpDiv}

\* Number of cells of a request record, one per field: operation, operand1,
\* operand2, client_pid, resp_fifo.
ReqLen == Cardinality({"operation", "operand1", "operand2", "client_pid", "resp_fifo"})

\* getpid() of client c, and the reply path "/tmp/arith_resp_<pid>.fifo".
PidBase == 100
ClientPid(c) == PidBase + c
PathBase == 1000
RespPath(pid) == PathBase + pid
ClientOfPath(p) == p - PathBase - PidBase
PathIsClient(p) == ClientOfPath(p) \in Clients

\* The value of an 8-byte operand field read as a signed integer.
AsInt(v) == Wrap(v)

\* request_msg_t as the client fills it in.
Request(op, a, b, c) ==
    [operation |-> op, operand1 |-> a, operand2 |-> b,
     client_pid |-> ClientPid(c), resp_fifo |-> RespPath(ClientPid(c))]

\* The bytes of a request record in the order of the packed struct.
EncodeReq(rq) ==
    <<rq.operation, rq.operand1, rq.operand2, rq.client_pid, rq.resp_fifo>>

\* The struct the server finds in its buffer after reading ReqLen cells.
DecodeReq(bytes) ==
    [operation |-> bytes[1],
     operand1 |-> AsInt(bytes[2]),
     operand2 |-> AsInt(bytes[3]),
     client_pid |-> bytes[4],
     resp_fifo |-> bytes[5]]

\* ------------------------------------------------------------- compute
ErrNone == ""
ErrDivZero == "Divide by zero"
ErrInvalid == "Invalid operation"

\* memcmp(rq->operation, tag, 3) == 0
Memcmp3(op, tag) ==
    op % (ByteVals * ByteVals * ByteVals) = tag % (ByteVals * ByteVals * ByteVals)

Response(r, s, e) == [result |-> r, success |-> s, error |-> e]

\* A worker killed by the division trap delivers nothing.
Trap == [result |-> 0, success |-> -1, error |-> "SIGFPE"]

\* Quotient truncated toward zero (b # 0), as a mathematical integer.
TruncDiv(a, b) ==
    LET abs(x) == IF x < 0 THEN -x ELSE x
        q == abs(a) \div abs(b)
    IN  IF (a < 0) = (b < 0) THEN q ELSE -q

\* a / b of the source: the quotient is not representable for
\* MinInt / -1, which is undefined behaviour: the division instruction
\* traps (x86) or yields the wrapped quotient (others).
DivOutcomes(a, b, r0) ==
    IF a = MinInt /\ b = -1
    THEN {Trap, Response(Wrap(TruncDiv(a, b)), 1, ErrNone)}
    ELSE {Response(TruncDiv(a, b), 1, ErrNone)}

\* compute() without the rejection of a zero divisor (for C12).
compute_DivZeroSucceeds(rq, r0) ==
    LET a == rq.operand1
        b == rq.operand2
    IN  IF Memcmp3(rq.operation, OpAdd) THEN {Response(Wrap(a + b), 1, ErrNone)}
        ELSE IF Memcmp3(rq.operation, OpSub) THEN {Response(Wrap(a - b), 1, ErrNone)}
        ELSE IF Memcmp3(rq.operation, OpMul) THEN {Response(Wrap(a * b), 1, ErrNone)}
        ELSE IF Memcmp3(rq.operation, OpDiv)
             THEN IF b = 0 THEN {Response(r0, 1, ErrDivZero)}
                  ELSE DivOutcomes(a, b, r0)
        ELSE {Response(r0, 0, ErrInvalid)}

\* compute() with add, sub and mul carried out on unbounded integers, not
\* reduced to the operand width (for C13).
compute_Unbounded(rq, r0) ==
    LET a == rq.operand1
        b == rq.operand2
    IN  IF Memcmp3(rq.operation, OpAdd) THEN {Response(a + b, 1, ErrNone)}
        ELSE IF Memcmp3(rq.operation, OpSub) THEN {Response(a - b, 1, ErrNone)}
        ELSE IF Memcmp3(rq.operation, OpMul) THEN {Response(a * b, 1, ErrNone)}
        ELSE IF Memcmp3(rq.operation, OpDiv)
             THEN IF b = 0 THEN {Response(r0, 0, ErrDivZero)}
                  ELSE DivOutcomes(a, b, r0)
        ELSE {Response(r0, 0, ErrInvalid)}

\* compute(): the set of outcomes for request rq; r0 is what rp->result
\* holds before the call (compute leaves it alone on the error paths).
compute(rq, r0) ==
    LET a == rq.operand1
        b == rq.operand2
    IN  IF Memcmp3(rq.operation, OpAdd) THEN {Response(Wrap(a + b), 1, ErrNone)}
        ELSE IF Memcmp3(rq.operation, OpSub) THEN {Response(Wrap(a - b), 1, ErrNone)}
        ELSE IF Memcmp3(rq.operation, OpMul) THEN {Response(Wrap(a * b), 1, ErrNone)}
        ELSE IF Memcmp3(rq.operation, OpDiv)
             THEN IF b = 0 THEN {Response(r0, 0, ErrDivZero)}
                  ELSE DivOutcomes(a, b, r0)
        ELSE {Response(r0, 0, ErrInvalid)}

\* ------------------------------------------------------------- state
VARIABLES
    spc,            \* server: position in main()
    sexit,          \* server: how the process ended ("" while it runs)
    stop_requested, \* server: flag set by on_sigint
    req_fd,         \* server: read end of the inbound FIFO is open
    dummy_w,        \* server: idle write end of the inbound FIFO is open
    fifo,           \* REQ_FIFO_PATH exists in the filesystem
    swake,          \* server: a blocked open() of it has been woken
    sbuf,           \* server: cells read_full has stored so far (off = Len)
    ff,             \* server: request and response of the fork-failed path
    pipe,           \* contents of the inbound FIFO
    workers,        \* the forked children, in fork order
    cpc,            \* client: position in main()
    cwake,          \* client: a blocked open() of it has been woken
    crq,            \* client: the request of the current transaction
    nreq,           \* client: requests built so far
    respFifo,       \* client's reply FIFO exists in the filesystem
    respBuf,        \* contents of the client's reply FIFO
    crd,            \* client: what read_full returned, until it is reported
    got,            \* client: outcome of each finished transaction
    injected,       \* partial records written by the external writer
    nwritten,       \* response records written to reply FIFOs so far
    nforkfail,      \* failed fork() calls so far
    cin,            \* compute harness: the request given to compute
    cout,           \* compute harness: its outcome
    ndispatched,    \* request records read and dispatched so far
    nafterstop      \* those of them dispatched with stop_requested set

svars == <<spc, sexit, stop_requested, req_fd, dummy_w, fifo, swake, sbuf, ff>>
cvars == <<cpc, cwake, crq, nreq, respFifo, respBuf, crd, got>>
gvars == <<ndispatched, nafterstop>>
hvars == <<cin, cout, gvars>>
vars == <<svars, pipe, workers, cvars, injected, nwritten, nforkfail, hvars>>

\* A cell of the inbound FIFO: its byte value v, and where it came from
\* (request n of client c, position i; c = 0 for the external writer).
Cell(v, c, n, i) == [v |-> v, c |-> c, n |-> n, i |-> i]

Values(cells) == [k \in 1..Len(cells) |-> cells[k].v]

\* The request (client, number) a frame of ReqLen cells is exactly, or
\* <<0, 0>> when the frame is not one request record as it was written.
Origin(cells) ==
    IF /\ cells[1].c \in Clients
       /\ \A k \in 1..Len(cells) :
            cells[k].i = k /\ cells[k].c = cells[1].c /\ cells[k].n = cells[1].n
    THEN <<cells[1].c, cells[1].n>>
    ELSE <<0, 0>>

NoOrigin == <<0, 0>>
NoReq == [operation |-> 0, operand1 |-> 0,
          operand2 |-> 0, client_pid |-> 0, resp_fifo |-> 0]
NoResp == Response(0, 0, ErrNone)
NoFF == [rq |-> NoReq, rp |-> NoResp, org |-> NoOrigin]
NoRead == [rr |-> "none", rp |-> NoResp, org |-> NoOrigin]

\* What the user types: operation name and two integers.
UserInputs ==
    {<<OpAdd, MaxInt, 1>>, <<OpDiv, MinInt, -1>>, <<OpDiv, 1, 0>>}

\* Byte value of the cells the external writer injects.
JunkByte == ChNul

\* Contents of an uninitialised response_msg_t result on the stack.
StackGarbage == {0, -1}

\* ---------------------------------------------------- FIFO open counts
\* Processes holding (or blocked opening) the write end of the inbound FIFO.
ReqWriterClients == {c \in Clients : cpc[c] \in {"open_req_blk", "write_req"}}
ReqHasWriter == dummy_w \/ ReqWriterClients # {}
\* The server holds (or is blocked opening) the read end.
ReqHasReader == req_fd \/ spc \in {"open_r_blk", "reopen_blk"}

\* Client c holds (or is blocked opening) the read end of its reply FIFO.
RespHasReader(p) ==
    PathIsClient(p) /\ cpc[ClientOfPath(p)] \in {"open_resp_blk", "read_resp", "close_resp"}
\* Workers holding (or blocked opening) the write end of reply path p.
RespWriterWorkers(p) ==
    {w \in DOMAIN workers :
        workers[w].pc \in {"open_blk", "write", "close"} /\ workers[w].rq.resp_fifo = p}
ServerWritesResp(p) == spc \in {"ff_open_blk", "ff_write"} /\ ff.rq.resp_fifo = p
RespHasWriter(p) == RespWriterWorkers(p) # {} \/ ServerWritesResp(p)
\* The path names an existing FIFO.
RespExists(p) == PathIsClient(p) /\ respFifo[ClientOfPath(p)]

\* A reader opening reply path p wakes every writer blocked in open().
WakeWriters(p) ==
    [w \in DOMAIN workers |->
        IF workers[w].pc = "open_blk" /\ workers[w].rq.resp_fifo = p
        THEN [workers[w] EXCEPT !.wake = TRUE] ELSE workers[w]]
\* A writer opening reply path p wakes the reader blocked in open().
WakeReader(p) ==
    [c \in Clients |->
        IF cpc[c] = "open_resp_blk" /\ RespPath(ClientPid(c)) = p THEN TRUE ELSE cwake[c]]

\* ------------------------------------------------------------- Init
Init ==
    /\ spc = "fopen"
    /\ sexit = ""
    /\ stop_requested = FALSE
    /\ req_fd = FALSE
    /\ dummy_w = FALSE
    /\ fifo = FALSE
    /\ swake = FALSE
    /\ sbuf = <<>>
    /\ ff = NoFF
    /\ pipe = <<>>
    /\ workers = <<>>
    /\ cpc = [c \in Clients |-> "prompt"]
    /\ cwake = [c \in Clients |-> FALSE]
    /\ crq = [c \in Clients |-> NoReq]
    /\ nreq = [c \in Clients |-> 0]
    /\ respFifo = [c \in Clients |-> TRUE]
    /\ respBuf = [c \in Clients |-> <<>>]
    /\ crd = [c \in Clients |-> NoRead]
    /\ got = [c \in Clients |-> <<>>]
    /\ injected = 0
    /\ nwritten = 0
    /\ nforkfail = 0
    /\ ndispatched = 0
    /\ nafterstop = 0
    /\ cin = NoReq
    /\ cout = NoResp

\* ------------------------------------------------------------- server
ServerAlive == spc # "exited"
\* The dispatch loop of main() has been entered.
InLoop == spc \in {"loop_top", "read", "reopen_blk", "ff_open", "ff_open_blk", "ff_write"}

\* cleanup(), run by exit(): close both ends, unlink the inbound FIFO.
cleanup ==
    /\ req_fd' = FALSE
    /\ dummy_w' = FALSE
    /\ fifo' = FALSE

\* The process ends through exit(): how is "return" for the return from
\* main, or the message of die(). The atexit handlers run.
ServerExit(how) ==
    /\ spc' = "exited"
    /\ sexit' = how
    /\ cleanup
    /\ UNCHANGED <<stop_requested, swake, sbuf, ff>>

\* The process is killed by a signal: the kernel closes its descriptors,
\* no atexit handler runs, the inbound FIFO stays in the filesystem.
ServerKilled(sig) ==
    /\ spc' = "exited"
    /\ sexit' = sig
    /\ req_fd' = FALSE
    /\ dummy_w' = FALSE
    /\ UNCHANGED <<fifo, stop_requested, swake, sbuf, ff>>

srest == <<pipe, workers, cvars, injected, nwritten, nforkfail, hvars>>

\* logf = fopen("server.log", "a"); die() before atexit(cleanup) is registered.
S_FopenLog(ok) ==
    /\ spc = "fopen"
    /\  IF ok THEN /\ spc' = "mkfifo"
                   /\ UNCHANGED <<sexit, req_fd, dummy_w, fifo>>
              ELSE /\ spc' = "exited"
                   /\ sexit' = "fopen log"
                   /\ UNCHANGED <<req_fd, dummy_w, fifo>>
    /\ UNCHANGED <<stop_requested, swake, sbuf, ff>>
    /\ UNCHANGED srest

\* mkfifo(REQ_FIFO_PATH, 0666)
S_Mkfifo(ok) ==
    /\ spc = "mkfifo"
    /\  IF ok THEN /\ spc' = "open_r"
                   /\ fifo' = TRUE
                   /\ UNCHANGED <<sexit, req_fd, dummy_w, stop_requested, swake, sbuf, ff>>
              ELSE ServerExit("mkfifo request")
    /\ UNCHANGED srest

\* req_fd = open(REQ_FIFO_PATH, O_RDONLY): fails, returns at once when a
\* writer is there, or blocks. Entering the call wakes the writers that
\* are blocked opening the FIFO.
S_OpenReq(ok) ==
    /\ spc = "open_r"
    /\  IF ok THEN /\ IF ReqWriterClients # {}
                         THEN spc' = "open_w" /\ req_fd' = TRUE
                         ELSE spc' = "open_r_blk" /\ req_fd' = FALSE
                   /\ swake' = FALSE
                   /\ cwake' = [c \in Clients |->
                                   IF cpc[c] = "open_req_blk" THEN TRUE ELSE cwake[c]]
                   /\ UNCHANGED <<sexit, dummy_w, fifo, stop_requested, sbuf, ff>>
              ELSE /\ ServerExit("open request fifo (read)")
                   /\ UNCHANGED cwake
    /\ UNCHANGED <<pipe, workers, cpc, crq, nreq, respFifo, respBuf, crd, got,
                   injected, nwritten, nforkfail, hvars>>

\* The blocked open() of the read end returns once a writer has opened.
S_OpenReqRet ==
    /\ spc \in {"open_r_blk", "reopen_blk"}
    /\ swake
    /\ spc' = IF spc = "open_r_blk" THEN "open_w" ELSE "loop_top"
    /\ req_fd' = TRUE
    /\ swake' = FALSE
    /\ UNCHANGED <<sexit, dummy_w, fifo, stop_requested, sbuf, ff>>
    /\ UNCHANGED srest

\* The startup without the idle write handle: the descriptor is not kept
\* (for C15).
S_OpenDummy_NotKept(ok) ==
    /\ spc = "open_w"
    /\  IF ok THEN /\ spc' = "loop_top"
                   /\ UNCHANGED <<sexit, req_fd, dummy_w, fifo, stop_requested, swake, sbuf, ff>>
              ELSE ServerExit("open request fifo (dummy write)")
    /\ UNCHANGED srest

\* dummy_w = open(REQ_FIFO_PATH, O_WRONLY): the read end is open, no blocking.
S_OpenDummy(ok) ==
    /\ spc = "open_w"
    /\  IF ok THEN /\ spc' = "loop_top"
                   /\ dummy_w' = TRUE
                   /\ UNCHANGED <<sexit, req_fd, fifo, stop_requested, swake, sbuf, ff>>
              ELSE ServerExit("open request fifo (dummy write)")
    /\ UNCHANGED srest

\* The loop top without the check of the stop flag (for C16).
S_LoopTop_NoStopCheck ==
    /\ spc = "loop_top"
    /\ spc' = "read"
    /\ sbuf' = <<>>
    /\ UNCHANGED <<sexit, stop_requested, req_fd, dummy_w, fifo, swake, ff>>
    /\ UNCHANGED srest

\* for(;;) { if (stop_requested) break; ... }  and return 0.
S_LoopTop ==
    /\ spc = "loop_top"
    /\ IF stop_requested
       THEN ServerExit("return")
       ELSE /\ spc' = "read"
            /\ sbuf' = <<>>
            /\ UNCHANGED <<sexit, stop_requested, req_fd, dummy_w, fifo, swake, ff>>
    /\ UNCHANGED srest

\* One read(fd, buf + off, n - off) of read_full: the cells it returns.
ReadCount == IF Len(pipe) < ReqLen - Len(sbuf) THEN Len(pipe) ELSE ReqLen - Len(sbuf)
ReadCells == SubSeq(pipe, 1, ReadCount)
ReadRest == SubSeq(pipe, ReadCount + 1, Len(pipe))
ReadFull == pipe # <<>> /\ Len(sbuf) + ReadCount = ReqLen

\* read_full() goes on or returns short: a read that does not complete the
\* record (the loop of read_full asks again), or end-of-stream (no data, no
\* writer): r == 0 closes and reopens the read end, 0 < r < sizeof(rq) is
\* logged and ignored.
S_ReadMore ==
    /\ spc = "read"
    /\ ~ReadFull
    /\ IF pipe # <<>>
       THEN /\ sbuf' = sbuf \o ReadCells
            /\ pipe' = ReadRest
            /\ UNCHANGED <<spc, req_fd>>
       ELSE /\ ~ReqHasWriter
            /\ UNCHANGED pipe
            /\ sbuf' = <<>>
            /\ IF Len(sbuf) = 0
               THEN spc' = "reopen_blk" /\ req_fd' = FALSE
               ELSE spc' = "loop_top" /\ UNCHANGED req_fd
    /\ UNCHANGED <<sexit, stop_requested, dummy_w, fifo, swake, ff>>
    /\ UNCHANGED <<workers, cvars, injected, nwritten, nforkfail, hvars>>

\* read() fails with an error other than EINTR: read_full returns -1 and
\* main calls die("read request").
S_ReadError ==
    /\ spc = "read"
    /\ ServerExit("read request")
    /\ UNCHANGED srest

\* The worker process as fork() creates it: a private copy of rq.
NewWorker(cells) ==
    [pc |-> "run", rq |-> DecodeReq(Values(cells)), org |-> Origin(cells),
     rp |-> NoResp, wake |-> FALSE, status |-> ""]

\* read_full() returns a whole record and fork() succeeds: the parent goes
\* back to the top of the loop.
S_Dispatch ==
    /\ spc = "read"
    /\ ReadFull
    /\ pipe' = ReadRest
    /\ workers' = Append(workers, NewWorker(sbuf \o ReadCells))
    /\ sbuf' = <<>>
    /\ spc' = "loop_top"
    /\ ndispatched' = ndispatched + 1
    /\ nafterstop' = IF stop_requested THEN nafterstop + 1 ELSE nafterstop
    /\ UNCHANGED <<sexit, stop_requested, req_fd, dummy_w, fifo, swake, ff>>
    /\ UNCHANGED <<cvars, injected, nwritten, nforkfail, cin, cout>>

\* read_full() returns a whole record and fork() fails: the parent computes
\* the response itself (rp is not cleared first) and goes on to open the
\* reply FIFO.
S_ForkFail ==
    /\ spc = "read"
    /\ ReadFull
    /\ nforkfail < MaxForkFail
    /\ nforkfail' = nforkfail + 1
    /\ pipe' = ReadRest
    /\ LET cells == sbuf \o ReadCells
           rq == DecodeReq(Values(cells))
       IN  \E r0 \in StackGarbage : \E out \in compute(rq, r0) :
             IF out = Trap
             THEN ServerKilled("SIGFPE")
             ELSE /\ spc' = "ff_open"
                  /\ ff' = [rq |-> rq, rp |-> out, org |-> Origin(cells)]
                  /\ sbuf' = <<>>
                  /\ UNCHANGED <<sexit, stop_requested, req_fd, dummy_w, fifo, swake>>
    /\ ndispatched' = ndispatched + 1
    /\ nafterstop' = IF stop_requested THEN nafterstop + 1 ELSE nafterstop
    /\ UNCHANGED <<workers, cvars, injected, nwritten, cin, cout>>

\* Fork-failed path: resp_fd = open(rq.resp_fifo, O_WRONLY), a blocking open
\* in the server process itself.
S_FFOpen ==
    /\ spc = "ff_open"
    /\ IF ~RespExists(ff.rq.resp_fifo)
       THEN /\ spc' = "loop_top"
            /\ ff' = NoFF
            /\ UNCHANGED <<swake, cwake>>
       ELSE /\ spc' = IF RespHasReader(ff.rq.resp_fifo) THEN "ff_write" ELSE "ff_open_blk"
            /\ swake' = FALSE
            /\ cwake' = WakeReader(ff.rq.resp_fifo)
            /\ UNCHANGED ff
    /\ UNCHANGED <<sexit, stop_requested, req_fd, dummy_w, fifo, sbuf>>
    /\ UNCHANGED <<pipe, workers, cpc, crq, nreq, respFifo, respBuf, crd, got,
                   injected, nwritten, nforkfail, hvars>>

\* The server's blocked open() of the reply FIFO returns once the client
\* has opened the read end.
S_FFOpenRet ==
    /\ spc = "ff_open_blk"
    /\ swake
    /\ spc' = "ff_write"
    /\ swake' = FALSE
    /\ UNCHANGED <<sexit, stop_requested, req_fd, dummy_w, fifo, sbuf, ff>>
    /\ UNCHANGED srest

\* Fork-failed path: write_full(resp_fd, &rp), close(resp_fd), continue.
\* SIGPIPE is at its default disposition: a write with no reader kills.
S_FFWrite ==
    /\ spc = "ff_write"
    /\ IF RespHasReader(ff.rq.resp_fifo)
       THEN /\ LET c == ClientOfPath(ff.rq.resp_fifo)
               IN  respBuf' = [respBuf EXCEPT
                                 ![c] = Append(@, [rp |-> ff.rp, org |-> ff.org])]
            /\ nwritten' = nwritten + 1
            /\ spc' = "loop_top"
            /\ ff' = NoFF
            /\ UNCHANGED <<sexit, stop_requested, req_fd, dummy_w, fifo, swake, sbuf>>
       ELSE /\ ServerKilled("SIGPIPE")
            /\ UNCHANGED <<respBuf, nwritten>>
    /\ UNCHANGED <<pipe, workers, cpc, cwake, crq, nreq, respFifo, crd, got,
                   injected, nforkfail, hvars>>

\* SIGINT/SIGTERM: on_sigint sets the flag. The handler is installed
\* without SA_RESTART: a blocked open() fails with EINTR (at startup main
\* dies; in the fork-failed path resp_fd < 0 and the loop continues), a
\* blocked read() fails with EINTR too and read_full calls it again.
Sigint ==
    /\ spc \notin {"fopen", "exited"}
    /\ IF spc = "open_r_blk"
       THEN /\ spc' = "exited"
            /\ sexit' = "open request fifo (read)"
            /\ stop_requested' = TRUE
            /\ cleanup
            /\ UNCHANGED <<swake, sbuf, ff>>
       ELSE IF spc = "ff_open_blk"
       THEN /\ spc' = "loop_top"
            /\ stop_requested' = TRUE
            /\ ff' = NoFF
            /\ swake' = FALSE
            /\ UNCHANGED <<sexit, req_fd, dummy_w, fifo, sbuf>>
       ELSE /\ stop_requested' = TRUE
            /\ UNCHANGED <<spc, sexit, req_fd, dummy_w, fifo, swake, sbuf, ff>>
    /\ UNCHANGED srest

\* A child that has not terminated.
NotZombie(r) == r.pc # "zombie"

\* The handler without its loop: one waitpid() per signal (for C17).
on_sigchld_ReapOne ==
    /\ spc \notin {"fopen", "exited"}
    /\ \E w \in DOMAIN workers :
          /\ ~NotZombie(workers[w])
          /\ workers' = SubSeq(workers, 1, w - 1) \o SubSeq(workers, w + 1, Len(workers))
    /\ UNCHANGED <<svars, pipe, cvars, injected, nwritten, nforkfail, hvars>>

\* SIGCHLD: on_sigchld reaps every terminated child without blocking.
on_sigchld ==
    /\ spc \notin {"fopen", "exited"}
    /\ \E w \in DOMAIN workers : ~NotZombie(workers[w])
    /\ workers' = SelectSeq(workers, NotZombie)
    /\ UNCHANGED <<svars, pipe, cvars, injected, nwritten, nforkfail, hvars>>

\* ------------------------------------------------------------- worker
SetWorker(w, r) == [workers EXCEPT ![w] = r]

\* A terminated child that has not been waited for: only its status is
\* left (and the request it was forked for).
Zombie(status, org) ==
    [pc |-> "zombie", rq |-> NoReq, org |-> org, rp |-> NoResp,
     wake |-> FALSE, status |-> status]

\* Child: compute(&rq, &rp) on a cleared rp, then
\* resp_fd = open(rq.resp_fifo, O_WRONLY); on failure log and _exit(0).
W_Run(w) ==
    /\ workers[w].pc = "run"
    /\ LET p == workers[w].rq.resp_fifo
       IN  \E out \in compute(workers[w].rq, 0) :
             IF out = Trap
             THEN /\ workers' = SetWorker(w, Zombie("SIGFPE", workers[w].org))
                  /\ UNCHANGED cwake
             ELSE IF ~RespExists(p)
             THEN /\ workers' = SetWorker(w, Zombie("open failed", workers[w].org))
                  /\ UNCHANGED cwake
             ELSE /\ workers' = SetWorker(w, [workers[w] EXCEPT
                                    !.pc = IF RespHasReader(p) THEN "write" ELSE "open_blk",
                                    !.rp = out,
                                    !.wake = FALSE])
                  /\ cwake' = WakeReader(p)
    /\ UNCHANGED <<svars, pipe, cpc, crq, nreq, respFifo, respBuf, crd, got,
                   injected, nwritten, nforkfail, hvars>>

\* The child's blocked open() returns once the client has opened the read end.
W_OpenRet(w) ==
    /\ workers[w].pc = "open_blk"
    /\ workers[w].wake
    /\ workers' = SetWorker(w, [workers[w] EXCEPT !.pc = "write", !.wake = FALSE])
    /\ UNCHANGED <<svars, pipe, cvars, injected, nwritten, nforkfail, hvars>>

\* The child inherits on_sigint, installed without SA_RESTART: a stop
\* signal that reaches the child (the terminal sends it to the whole process
\* group) makes its blocked open() fail with EINTR; resp_fd < 0 is logged
\* and the child exits.
W_OpenIntr(w) ==
    /\ workers[w].pc = "open_blk"
    /\ workers' = SetWorker(w, Zombie("open failed", workers[w].org))
    /\ UNCHANGED <<svars, pipe, cvars, injected, nwritten, nforkfail, hvars>>

\* A child that writes its response and is ready to write it again (for C18).
W_Write_Again(w) ==
    /\ workers[w].pc = "write"
    /\ RespHasReader(workers[w].rq.resp_fifo)
    /\ LET c == ClientOfPath(workers[w].rq.resp_fifo)
       IN  respBuf' = [respBuf EXCEPT
                ![c] = Append(@, [rp |-> workers[w].rp, org |-> workers[w].org])]
    /\ nwritten' = nwritten + 1
    /\ UNCHANGED <<svars, pipe, workers, cpc, cwake, crq, nreq, respFifo, crd, got,
                   injected, nforkfail, hvars>>

\* write_full(resp_fd, &rp, sizeof(rp)). SIGPIPE is at its default
\* disposition in the child: a write with no reader kills it.
W_Write(w) ==
    /\ workers[w].pc = "write"
    /\ IF RespHasReader(workers[w].rq.resp_fifo)
       THEN /\ LET c == ClientOfPath(workers[w].rq.resp_fifo)
               IN  respBuf' = [respBuf EXCEPT
                        ![c] = Append(@, [rp |-> workers[w].rp, org |-> workers[w].org])]
            /\ nwritten' = nwritten + 1
            /\ workers' = SetWorker(w, [workers[w] EXCEPT !.pc = "close"])
       ELSE /\ workers' = SetWorker(w, Zombie("SIGPIPE", workers[w].org))
            /\ UNCHANGED <<respBuf, nwritten>>
    /\ UNCHANGED <<svars, pipe, cpc, cwake, crq, nreq, respFifo, crd, got,
                   injected, nforkfail, hvars>>

\* A child that ends through exit(), running the inherited atexit handler,
\* which unlinks the inbound FIFO (for C19).
W_Close_Exit(w) ==
    /\ workers[w].pc = "close"
    /\ workers' = SetWorker(w, Zombie("sent", workers[w].org))
    /\ fifo' = FALSE
    /\ UNCHANGED <<spc, sexit, stop_requested, req_fd, dummy_w, swake, sbuf, ff>>
    /\ UNCHANGED <<pipe, cvars, injected, nwritten, nforkfail, hvars>>

\* close(resp_fd); _exit(0).
W_Close(w) ==
    /\ workers[w].pc = "close"
    /\ workers' = SetWorker(w, Zombie("sent", workers[w].org))
    /\ UNCHANGED <<svars, pipe, cvars, injected, nwritten, nforkfail, hvars>>

\* ------------------------------------------------------------- client
\* Response rp is what compute yields for request rq.
Matches(rq, rp) == \E r0 \in StackGarbage \cup {0} : rp \in compute(rq, r0)

\* The record of transaction n of a client: how it ended, the request the
\* response it accepted was computed from, and whether that response is
\* the one compute yields for the client's own request.
Outcome(n, how, org, match) == [n |-> n, how |-> how, org |-> org, match |-> match]
crest == <<svars, pipe, workers, injected, nwritten, nforkfail, hvars>>

\* The user types a valid operation and two integers, and the client builds
\* the request (at most limit requests in a session).
C_Build(c, limit) ==
    /\ cpc[c] = "prompt"
    /\ nreq[c] < limit
    /\ \E in \in UserInputs :
        crq' = [crq EXCEPT ![c] = Request(in[1], in[2], in[3], c)]
    /\ nreq' = [nreq EXCEPT ![c] = @ + 1]
    /\ cpc' = [cpc EXCEPT ![c] = "open_req"]
    /\ UNCHANGED <<cwake, respFifo, respBuf, crd, got>>
    /\ UNCHANGED crest

\* The user types exit (or stdin ends): unlink(resp_fifo), return.
C_Exit(c) ==
    /\ cpc[c] = "prompt"
    /\ cpc' = [cpc EXCEPT ![c] = "exited"]
    /\ respFifo' = [respFifo EXCEPT ![c] = FALSE]
    /\ UNCHANGED <<cwake, crq, nreq, respBuf, crd, got>>
    /\ UNCHANGED crest

\* req_fd = open(REQ_FIFO_PATH, O_WRONLY): fails when the FIFO is not
\* there ("open request fifo", back to the prompt), else returns at once
\* when the server has the read end open, or blocks.
C_OpenReq(c) ==
    /\ cpc[c] = "open_req"
    /\ IF ~fifo
       THEN /\ cpc' = [cpc EXCEPT ![c] = "prompt"]
            /\ got' = [got EXCEPT ![c] = Append(@,
                          Outcome(nreq[c], "failed to send", NoOrigin, FALSE))]
            /\ crq' = [crq EXCEPT ![c] = NoReq]
            /\ UNCHANGED <<cwake, swake>>
       ELSE /\ cpc' = [cpc EXCEPT ![c] = IF ReqHasReader THEN "write_req" ELSE "open_req_blk"]
            /\ cwake' = [cwake EXCEPT ![c] = FALSE]
            /\ swake' = IF spc \in {"open_r_blk", "reopen_blk"} THEN TRUE ELSE swake
            /\ UNCHANGED <<got, crq>>
    /\ UNCHANGED <<nreq, respFifo, respBuf, crd>>
    /\ UNCHANGED <<spc, sexit, stop_requested, req_fd, dummy_w, fifo, sbuf, ff>>
    /\ UNCHANGED <<pipe, workers, injected, nwritten, nforkfail, hvars>>

\* The client's blocked open() of the inbound FIFO returns once the server
\* has opened the read end.
C_OpenReqRet(c) ==
    /\ cpc[c] = "open_req_blk"
    /\ cwake[c]
    /\ cpc' = [cpc EXCEPT ![c] = "write_req"]
    /\ cwake' = [cwake EXCEPT ![c] = FALSE]
    /\ UNCHANGED <<crq, nreq, respFifo, respBuf, crd, got>>
    /\ UNCHANGED crest

\* The cells of request n of client c as they enter the inbound FIFO.
RequestCells(c, n, rq) ==
    [k \in 1..ReqLen |-> Cell(EncodeReq(rq)[k], c, n, k)]

\* write_full(req_fd, &rq, sizeof(rq)); close(req_fd). SIGPIPE is at its
\* default disposition: a write with no reader kills the client.
C_WriteReq(c) ==
    /\ cpc[c] = "write_req"
    /\ IF ReqHasReader
       THEN /\ pipe' = pipe \o RequestCells(c, nreq[c], crq[c])
            /\ cpc' = [cpc EXCEPT ![c] = "open_resp"]
            /\ UNCHANGED crq
       ELSE /\ cpc' = [cpc EXCEPT ![c] = "killed"]
            /\ crq' = [crq EXCEPT ![c] = NoReq]
            /\ UNCHANGED pipe
    /\ UNCHANGED <<cwake, nreq, respFifo, respBuf, crd, got>>
    /\ UNCHANGED <<svars, workers, injected, nwritten, nforkfail, hvars>>

\* rfd = open(resp_fifo, O_RDONLY): returns at once when a writer is
\* there, or blocks; entering the call wakes the writers blocked in open().
C_OpenResp(c) ==
    LET p == RespPath(ClientPid(c))
    IN  /\ cpc[c] = "open_resp"
        /\ cpc' = [cpc EXCEPT ![c] = IF RespHasWriter(p) THEN "read_resp" ELSE "open_resp_blk"]
        /\ cwake' = [cwake EXCEPT ![c] = FALSE]
        /\ workers' = WakeWriters(p)
        /\ swake' = IF spc = "ff_open_blk" /\ ff.rq.resp_fifo = p THEN TRUE ELSE swake
        /\ UNCHANGED <<crq, nreq, respFifo, respBuf, crd, got>>
        /\ UNCHANGED <<spc, sexit, stop_requested, req_fd, dummy_w, fifo, sbuf, ff>>
        /\ UNCHANGED <<pipe, injected, nwritten, nforkfail, hvars>>

\* The client's blocked open() of its reply FIFO returns once a writer has
\* opened it.
C_OpenRespRet(c) ==
    /\ cpc[c] = "open_resp_blk"
    /\ cwake[c]
    /\ cpc' = [cpc EXCEPT ![c] = "read_resp"]
    /\ cwake' = [cwake EXCEPT ![c] = FALSE]
    /\ UNCHANGED <<crq, nreq, respFifo, respBuf, crd, got>>
    /\ UNCHANGED crest

\* rr = read_full(rfd, &rp, sizeof(rp)): a whole response record, or
\* end-of-stream (no data and no writer) with 0 bytes; blocks otherwise.
C_ReadResp(c) ==
    /\ cpc[c] = "read_resp"
    /\ IF respBuf[c] # <<>>
       THEN /\ crd' = [crd EXCEPT ![c] = [rr |-> "full", rp |-> Head(respBuf[c]).rp,
                                          org |-> Head(respBuf[c]).org]]
            /\ respBuf' = [respBuf EXCEPT ![c] = Tail(@)]
       ELSE /\ ~RespHasWriter(RespPath(ClientPid(c)))
            /\ crd' = [crd EXCEPT ![c] = [rr |-> "short", rp |-> NoResp, org |-> NoOrigin]]
            /\ UNCHANGED respBuf
    /\ cpc' = [cpc EXCEPT ![c] = "close_resp"]
    /\ UNCHANGED <<cwake, crq, nreq, respFifo, got>>
    /\ UNCHANGED crest

\* close(rfd), then the report: "Failed to read full response" on a short
\* read, the result or the server's error otherwise; back to the prompt.
C_CloseResp(c) ==
    /\ cpc[c] = "close_resp"
    /\ got' = [got EXCEPT ![c] = Append(@,
                  IF crd[c].rr = "full"
                  THEN Outcome(nreq[c], "answer", crd[c].org, Matches(crq[c], crd[c].rp))
                  ELSE Outcome(nreq[c], "no answer", NoOrigin, FALSE))]
    /\ crd' = [crd EXCEPT ![c] = NoRead]
    /\ crq' = [crq EXCEPT ![c] = NoReq]
    /\ cpc' = [cpc EXCEPT ![c] = "prompt"]
    /\ UNCHANGED <<cwake, nreq, respFifo, respBuf>>
    /\ UNCHANGED crest

\* ------------------------------------------------------- external writer
\* Some process opens the inbound FIFO, writes k cells (0 < k < ReqLen) and
\* closes it.
Inject(k) ==
    /\ injected < MaxInject
    /\ fifo
    /\ req_fd
    /\ pipe' = pipe \o [i \in 1..k |-> Cell(JunkByte, 0, injected + 1, i)]
    /\ injected' = injected + 1
    /\ UNCHANGED <<svars, workers, cvars, nwritten, nforkfail, hvars>>

\* ------------------------------------------------------------- system
\* The server's startup; ok = FALSE is the failure of the call.
ServerStartup(ok) ==
    \/ S_FopenLog(ok)
    \/ S_Mkfifo(ok)
    \/ S_OpenReq(ok)
    \/ S_OpenDummy(ok)

\* The dispatch loop when fork() succeeds and whole records arrive.
ServerLoop ==
    \/ S_OpenReqRet
    \/ S_LoopTop
    \/ S_Dispatch

ServerForkFailed ==
    \/ S_ForkFail
    \/ S_FFOpen
    \/ S_FFOpenRet
    \/ S_FFWrite

WorkerStep(w) ==
    \/ W_Run(w)
    \/ W_OpenRet(w)
    \/ W_Write(w)
    \/ W_Close(w)

\* The steps of a client that wait for the user.
ClientUser(c, limit) ==
    \/ C_Build(c, limit)
    \/ C_Exit(c)

\* The steps of a client that the program takes by itself.
ClientRun(c) ==
    \/ C_OpenReq(c)
    \/ C_OpenReqRet(c)
    \/ C_WriteReq(c)
    \/ C_OpenResp(c)
    \/ C_OpenRespRet(c)
    \/ C_ReadResp(c)
    \/ C_CloseResp(c)

WorkersRun == \E w \in DOMAIN workers : WorkerStep(w)
ClientsRun == \E c \in Clients : ClientRun(c)

WorkersIntr == \E w \in DOMAIN workers : W_OpenIntr(w)

\* The server, its workers and the clients with their environment: failing
\* system calls, stop signals, sessions of several requests. Only whole
\* request records are written to the inbound FIFO.
Next ==
    \/ \E ok \in BOOLEAN : ServerStartup(ok)
    \/ ServerLoop
    \/ S_ReadError
    \/ ServerForkFailed
    \/ Sigint
    \/ on_sigchld
    \/ WorkersRun
    \/ WorkersIntr
    \/ ClientsRun
    \/ \E c \in Clients : ClientUser(c, SessionLimit(c))

Spec == Init /\ [][Next]_vars

\* The scheduler lets every process that can take a step take one; nothing
\* makes a user type, a signal arrive or a system call fail.
Fairness ==
    /\ WF_vars(ServerStartup(TRUE) \/ ServerLoop \/ S_FFOpen \/ S_FFOpenRet \/ S_FFWrite)
    /\ WF_vars(on_sigchld)
    /\ WF_vars(WorkersRun)
    /\ WF_vars(ClientsRun)

FairSpec == Spec /\ Fairness

\* Sessions of one request each against a server that receives stop
\* signals, with no failing call, under the scheduler's fairness.
StopNext ==
    \/ ServerStartup(TRUE)
    \/ ServerLoop
    \/ Sigint
    \/ on_sigchld
    \/ WorkersRun
    \/ ClientsRun
    \/ \E c \in Clients : ClientUser(c, 1)

StopSpec ==
    /\ Init
    /\ [][StopNext]_vars
    /\ WF_vars(ServerStartup(TRUE) \/ ServerLoop)
    /\ WF_vars(on_sigchld)
    /\ WF_vars(WorkersRun)
    /\ WF_vars(ClientsRun)

\* N concurrent sessions of one request each against one server, with no
\* failing call and no signal.
ConcNext ==
    \/ ServerStartup(TRUE)
    \/ ServerLoop
    \/ on_sigchld
    \/ WorkersRun
    \/ ClientsRun
    \/ \E c \in Clients : ClientUser(c, 1)

ConcSpec == Init /\ [][ConcNext]_vars

\* The same under the scheduler's fairness.
ConcFairSpec ==
    /\ ConcSpec
    /\ WF_vars(ServerStartup(TRUE) \/ ServerLoop)
    /\ WF_vars(on_sigchld)
    /\ WF_vars(WorkersRun)
    /\ WF_vars(ClientsRun)

\* Sessions of several requests one after another against one server, with
\* no failing call and no signal.
SessionNext ==
    \/ ServerStartup(TRUE)
    \/ ServerLoop
    \/ on_sigchld
    \/ WorkersRun
    \/ ClientsRun
    \/ \E c \in Clients : ClientUser(c, SessionLimit(c))

SessionSpec == Init /\ [][SessionNext]_vars

\* The same under the scheduler's fairness.
SessionFairSpec ==
    /\ SessionSpec
    /\ WF_vars(ServerStartup(TRUE) \/ ServerLoop)
    /\ WF_vars(on_sigchld)
    /\ WF_vars(WorkersRun)
    /\ WF_vars(ClientsRun)

\* The same, with an external writer of partial records.
InjectNext ==
    \/ ServerStartup(TRUE)
    \/ ServerLoop
    \/ S_ReadMore
    \/ on_sigchld
    \/ WorkersRun
    \/ ClientsRun
    \/ \E c \in Clients : ClientUser(c, 1)
    \/ \E k \in 1..(ReqLen - 1) : Inject(k)

InjectSpec == Init /\ [][InjectNext]_vars

\* compute() alone, on every request over the operand range: the four
\* valid tags, and tags that differ from them in one byte.
ComputeOps ==
    ValidOps \cup {OpWord(ChA, ChD, ChD, ChX), OpWord(ChA, ChD, ChX, ChNul),
                   OpWord(ChNul, ChNul, ChNul, ChNul)}

ComputeInit ==
    /\ cin \in {Request(op, a, b, 1) : op \in ComputeOps, a \in IntRange, b \in IntRange}
    /\ cout = NoResp
    /\ spc = "fopen"
    /\ sexit = ""
    /\ stop_requested = FALSE
    /\ req_fd = FALSE
    /\ dummy_w = FALSE
    /\ fifo = FALSE
    /\ swake = FALSE
    /\ sbuf = <<>>
    /\ ff = NoFF
    /\ pipe = <<>>
    /\ workers = <<>>
    /\ cpc = [c \in Clients |-> "prompt"]
    /\ cwake = [c \in Clients |-> FALSE]
    /\ crq = [c \in Clients |-> NoReq]
    /\ nreq = [c \in Clients |-> 0]
    /\ respFifo = [c \in Clients |-> TRUE]
    /\ respBuf = [c \in Clients |-> <<>>]
    /\ crd = [c \in Clients |-> NoRead]
    /\ got = [c \in Clients |-> <<>>]
    /\ injected = 0
    /\ nwritten = 0
    /\ nforkfail = 0
    /\ ndispatched = 0
    /\ nafterstop = 0

\* The child's call: compute(&rq, &rp) after memset(&rp, 0, sizeof(rp)).
ComputeStep ==
    /\ cout = NoResp
    /\ cout' \in compute(cin, 0)
    /\ UNCHANGED <<svars, pipe, workers, cvars, injected, nwritten, nforkfail, cin, gvars>>

ComputeSpec == ComputeInit /\ [][ComputeStep]_vars

\* ------------------------------------------------------------- claims
\* The transactions of client c that ended after the request was written.
SentDone(c) == {k \in 1..Len(got[c]) : got[c][k].how # "failed to send"}
\* Client c has written a request and waits for its response.
Waiting(c) == cpc[c] \in {"open_resp", "open_resp_blk", "read_resp", "close_resp"}
\* The clients that have written a request to the inbound FIFO.
Issuers == {c \in Clients : Waiting(c) \/ SentDone(c) # {}}

\* Every transaction of client c that ended after the request was written
\* ended with a full response computed from the request of that transaction.
OwnAnswers(c) ==
    \A k \in SentDone(c) :
        /\ got[c][k].how = "answer"
        /\ got[c][k].org = <<c, got[c][k].n>>
        /\ got[c][k].match

\* C1: with one server and N concurrent sessions of one request each, every
\* client reads exactly one full response, the one computed from its own
\* request, never one computed from another client's request, and exactly N
\* responses are written: no client accepts anything but its own answer, no
\* more responses than requests are written, and when nothing more can
\* happen every client that issued a request has read its response.
C1_EachClientReadsItsOwnResponse ==
    /\ \A c \in Clients : OwnAnswers(c) /\ Cardinality(SentDone(c)) <= 1
    /\ nwritten <= Cardinality(Issuers)
    /\ ~(ENABLED ConcNext) =>
          /\ \A c \in Issuers : Cardinality(SentDone(c)) = 1
          /\ nwritten = Cardinality(Issuers)

\* C2: after k cells (0 < k < ReqLen) were written to the inbound FIFO and
\* the writer closed it, no response is written for them, the server does
\* not terminate, and a request written afterwards is dispatched with
\* exactly the fields its client sent and answered correctly: every worker
\* is forked for one request record as it was written, every response is
\* computed from such a record, and clients accept only their own answers.
C2_PartialRecordIsDiscarded ==
    injected > 0 =>
        /\ \A w \in DOMAIN workers : workers[w].org # NoOrigin
        /\ \A c \in Clients : \A k \in 1..Len(respBuf[c]) : respBuf[c][k].org # NoOrigin
        /\ spc # "exited"
        /\ \A c \in Clients : OwnAnswers(c)

\* C3: after a stop signal is delivered to the server in its dispatch loop,
\* also while it is blocked reading the inbound FIFO with no client
\* writing, the server eventually leaves the loop, closes the inbound FIFO
\* and removes it.
C3_StopSignalEndsTheServer ==
    (stop_requested /\ InLoop) ~> (spc = "exited" /\ ~req_fd /\ ~fifo)

\* C4: whenever the server has exited after a stop signal, none of the
\* workers it forked is still running or waiting to be reaped.
C4_NoWorkerLeftAtExit ==
    (spc = "exited" /\ sexit = "return") => workers = <<>>

\* C5: the server process never waits for a client to open its reply FIFO.
C5_ServerNeverBlocksOnReplyFifo ==
    spc # "ff_open_blk"

\* C6: no request is lost, also around a stop signal: when the server has
\* returned from its loop, every request record written to the inbound FIFO
\* has been read and dispatched.
C6_NoRequestLost ==
    (spc = "exited" /\ sexit = "return") => pipe = <<>>

\* C7: once the dispatch loop is entered, no failure met while handling a
\* request terminates the server; it ends only by the return from main (or
\* by a failed startup call).
StartupFailures ==
    {"fopen log", "mkfifo request", "open request fifo (read)",
     "open request fifo (dummy write)"}
C7_OnlyStartupFailuresAreFatal ==
    spc = "exited" => sexit \in StartupFailures \cup {"return"}

\* C8: a write to a FIFO whose read end is gone never kills the writer: no
\* client and no worker is terminated by SIGPIPE.
C8_NoWriterKilledBySignal ==
    /\ \A c \in Clients : cpc[c] # "killed"
    /\ \A w \in DOMAIN workers : workers[w].status # "SIGPIPE"

\* The worker forked for the current request of client c has terminated
\* without writing a response.
WorkerFailed(c) ==
    \E w \in DOMAIN workers :
        /\ workers[w].pc = "zombie"
        /\ workers[w].status # "sent"
        /\ workers[w].org = <<c, nreq[c]>>
\* The current transaction of client c is over.
TransactionOver(c) ==
    /\ cpc[c] \in {"prompt", "exited"}
    /\ \E k \in 1..Len(got[c]) : got[c][k].n = nreq[c]

\* C9: when the worker of a client's request terminates without delivering
\* a response, the client eventually ends the transaction (a short or
\* failed read, "no answer") and goes on to its next operation.
C9_ClientDoesNotWaitForever ==
    \A c \in Clients : WorkerFailed(c) ~> TransactionOver(c)

\* C10: for every div request with a non-zero second operand, over the
\* whole operand range, the worker produces success = 1 and the quotient
\* truncated toward zero.
C10_DivYieldsTruncatedQuotient ==
    (cout # NoResp /\ Memcmp3(cin.operation, OpDiv) /\ cin.operand2 # 0) =>
        /\ cout.success = 1
        /\ cout.result = TruncDiv(cin.operand1, cin.operand2)

\* C11: for every request whose operation field is not exactly one of the
\* four tags add, sub, mul, div (whatever its four bytes are, also when only
\* the first three bytes are those of a tag), compute returns success = 0
\* with error "Invalid operation" and leaves the result untouched.
C11_UnknownTagIsRejected ==
    (cout # NoResp /\ cin.operation \notin ValidOps) =>
        cout = Response(0, 0, ErrInvalid)
\* A request for a division by zero.
IsDivZero(rq) == Memcmp3(rq.operation, OpDiv) /\ rq.operand2 = 0
\* The response compute gives to a division by zero on a cleared rp.
DivZeroResponse == Response(0, 0, ErrDivZero)
\* Every response record that exists: computed by a worker or by the
\* server's fork-failed path, in a reply FIFO, or read by a client.
Responses ==
    {workers[w].rp : w \in {v \in DOMAIN workers :
                              workers[v].pc \in {"open_blk", "write", "close"}}}
    \cup UNION {{respBuf[c][k].rp : k \in 1..Len(respBuf[c])} : c \in Clients}
    \cup {crd[c].rp : c \in {d \in Clients : crd[d].rr = "full"}}
    \cup (IF ff = NoFF THEN {} ELSE {ff.rp})
C12_Safety ==
    /\ \A a \in IntRange : \A r0 \in StackGarbage \cup {0} :
          compute(Request(OpDiv, a, 0, 1), r0) = {Response(r0, 0, ErrDivZero)}
    /\ \A w \in DOMAIN workers :
          (workers[w].pc \in {"open_blk", "write", "close"} /\ IsDivZero(workers[w].rq))
              => workers[w].rp = DivZeroResponse
    /\ \A c \in Clients :
          (crd[c].rr = "full" /\ IsDivZero(crq[c]) /\ crd[c].org = <<c, nreq[c]>>)
              => crd[c].rp = DivZeroResponse
    /\ \A rp \in Responses : rp.success = 1 => rp.error = ErrNone
\* Client c has read the full response computed from its current request.
Answered(c) ==
    /\ cpc[c] = "close_resp"
    /\ crd[c].rr = "full"
    /\ crd[c].org = <<c, nreq[c]>>
    /\ crd[c].rp = DivZeroResponse

Exact(op, a, b) ==
    IF op = OpAdd THEN a + b ELSE IF op = OpSub THEN a - b ELSE a * b
\* The value of the operand range congruent to x modulo 2^IntBits.
Reduced(x) == CHOOSE y \in IntRange : (y - x) % Pow2(IntBits) = 0

\* C13: for every pair of operands and every operation of add, sub, mul,
\* compute returns success = 1 and the exact mathematical result reduced
\* to the two's-complement range of the operand width (wrap-around).
C13_AddSubMulWrap ==
    (cout # NoResp /\ cin.operation \in {OpAdd, OpSub, OpMul}) =>
        cout = Response(Reduced(Exact(cin.operation, cin.operand1, cin.operand2)), 1, ErrNone)

\* compute has answered an add, sub or mul whose exact result is outside
\* the operand range.
C13_Witness ==
    /\ cout # NoResp
    /\ cin.operation \in {OpAdd, OpSub, OpMul}
    /\ Exact(cin.operation, cin.operand1, cin.operand2) \notin IntRange
    /\ cout.success = 1
\* C14: in a session of several requests over the same reply FIFO, every
\* transaction whose request was written ends with a full response computed
\* from the request of that transaction: a worker of an earlier request
\* that still holds the reply FIFO makes the client read neither
\* end-of-stream nor a stale response for a later request.
C14_LaterRequestGetsItsOwnResponse ==
    \A c \in Clients : \A k \in SentDone(c) :
        /\ got[c][k].how = "answer"
        /\ got[c][k].org = <<c, got[c][k].n>>
        /\ got[c][k].match
\* read() on the inbound FIFO would return 0: no data and no write end open.
ReqAtEof == pipe = <<>> /\ ~ReqHasWriter

\* C15: while the server is in its dispatch loop it holds its own write
\* handle on the inbound FIFO, so its read never returns end-of-stream with
\* zero bytes (the close-and-reopen of the read handle is never entered),
\* whatever order the clients open and close the FIFO in.
C15_ServerHoldsIdleWriter ==
    /\ InLoop => dummy_w
    /\ spc = "read" => ~ReqAtEof
    /\ spc # "reopen_blk"

\* The server waits in read with an empty FIFO after every client that
\* wrote to it has closed it.
C15_Witness ==
    /\ spc = "read"
    /\ pipe = <<>>
    /\ sbuf = <<>>
    /\ ReqWriterClients = {}
    /\ \E c \in Clients : SentDone(c) # {}
\* C16: a stop signal that arrives while the server is blocked reading the
\* inbound FIFO does not abandon the read: the server leaves the read only
\* with the record it returns, which it dispatches to a new worker; at the
\* next loop-top check it exits without starting another read; so at most
\* one request is dispatched after the stop flag is set.
C16_StopDuringReadDispatchesOne ==
    /\ [](nafterstop <= 1)
    /\ [][(spc = "read" /\ stop_requested /\ spc' # "read") =>
             /\ spc' = "loop_top"
             /\ ndispatched' = ndispatched + 1
             /\ nafterstop' = nafterstop + 1
             /\ Len(workers') = Len(workers) + 1
             /\ workers'[Len(workers')].pc = "run"]_vars
    /\ [][(spc = "loop_top" /\ stop_requested /\ spc' # "loop_top") =>
             (spc' = "exited" /\ sexit' = "return")]_vars

\* The server has exited after dispatching one request with the stop flag
\* set, leaving a later request unread.
C16_Witness ==
    /\ spc = "exited"
    /\ sexit = "return"
    /\ nafterstop = 1
    /\ pipe # <<>>
\* The terminated workers that have not been waited for.
Zombies == {w \in DOMAIN workers : ~NotZombie(workers[w])}

\* C17: while the server is running every terminated worker is eventually
\* reaped: the handler can run whenever a terminated worker exists (also
\* while a worker is still running), one run of it reaps every terminated
\* worker and no running one, and it leaves the server where it was in its
\* loop.
C17_TerminatedWorkersAreReaped ==
    /\ [](Zombies # {} /\ spc \notin {"fopen", "exited"} => ENABLED on_sigchld)
    /\ [][Len(workers') < Len(workers) =>
             /\ workers' = SelectSeq(workers, NotZombie)
             /\ spc' = spc
             /\ sbuf' = sbuf]_vars
    /\ (Zombies # {}) ~> (Zombies = {} \/ spc = "exited")

\* Two workers have terminated and wait for one run of the handler while
\* the server is running.
C17_Witness ==
    /\ Cardinality(Zombies) >= 2
    /\ spc \notin {"fopen", "exited"}
\* The response records computed from request o that have been written:
\* those still in a reply FIFO, held by a client, or accepted by one.
WrittenFor(o) ==
    Cardinality({<<c, k>> \in Clients \X (1..MaxReqs) :
                    k <= Len(respBuf[c]) /\ respBuf[c][k].org = o})
    + Cardinality({c \in Clients : crd[c].rr = "full" /\ crd[c].org = o})
    + Cardinality({<<c, k>> \in Clients \X (1..MaxReqs) :
                    k <= Len(got[c]) /\ got[c][k].how = "answer" /\ got[c][k].org = o})

\* C18: at most one response record is written for each dispatched request:
\* a worker that has written goes on to close and exit and never writes
\* again, a terminated worker stays terminated, every step writes at most
\* one record, and the responses written never outnumber the requests
\* dispatched.
C18_AtMostOneResponsePerRequest ==
    /\ [](nwritten <= ndispatched)
    /\ [](\A c \in Clients : \A n \in 1..MaxReqs : WrittenFor(<<c, n>>) <= 1)
    /\ [][nwritten' \in {nwritten, nwritten + 1}]_vars
    /\ [][Len(workers') = Len(workers) =>
            \A w \in DOMAIN workers :
                /\ workers[w].pc = "close" => workers'[w].pc \in {"close", "zombie"}
                /\ workers[w].pc = "zombie" => workers'[w] = workers[w]]_vars

\* Two requests have been dispatched and a response written for each.
C18_Witness ==
    /\ ndispatched >= 2
    /\ nwritten = ndispatched
\* Some worker terminates in this step.
WorkerTerminates ==
    /\ Len(workers') = Len(workers)
    /\ \E w \in DOMAIN workers : NotZombie(workers[w]) /\ ~NotZombie(workers'[w])

\* C19: the inbound FIFO is removed only by the server's own exit: the
\* termination of a worker, on each of its exit paths, leaves the FIFO
\* path and the server's two handles on it unchanged; the path disappears
\* only in the step in which the server exits; and it exists in every state
\* from the server's mkfifo to the server's exit.
C19_OnlyServerExitRemovesFifo ==
    /\ [][WorkerTerminates => (fifo' = fifo /\ req_fd' = req_fd /\ dummy_w' = dummy_w)]_vars
    /\ [][(fifo /\ ~fifo') => (spc # "exited" /\ spc' = "exited")]_vars
    /\ [](spc \notin {"fopen", "mkfifo", "exited"} => fifo)

\* Workers have terminated on different exit paths while the server is in
\* its loop and the inbound FIFO exists.
C19_Witness ==
    /\ InLoop
    /\ fifo
    /\ \E w \in DOMAIN workers : workers[w].status = "sent"
    /\ \E w \in DOMAIN workers : workers[w].status \in {"open failed", "SIGPIPE", "SIGFPE"}

====
